---- MODULE Spec2Model ----
(***************************************************************************)
(* A model of wget.py: one retrieval at a time through                     *)
(* WgetRetrieveWrapper.__call__ / _retrieve_loop / gethttp /               *)
(* process_response, against a server that holds one fixed entity, with    *)
(* the process-wide unreachable-host registry and the pool manager's pool  *)
(* cache persisting from one retrieval to the next.                        *)
(*                                                                         *)
(* Conventions.  A step of the model runs the code from one blocking call  *)
(* to the next: a step that ends an attempt with "continue" also runs the  *)
(* top of THE loop and gethttp up to its call of urlopen.  A URL is        *)
(* identified by its authority, one of Hosts.  Python's None is NoInt for  *)
(* an Optional[int], NoHost for an Optional[url], NoEnc for an absent      *)
(* Content-Encoding header, NoRange for an absent Content-Range header.    *)
(* The entity is the byte string <<1, ..., EntityLen>>, so that a lost, a  *)
(* repeated or a misplaced byte shows in a file's contents.                *)
(***************************************************************************)
EXTENDS Integers, Sequences, FiniteSets, TLC

\* ---------------------------------------------------------------- bounds
EntityLen == 3
MaxChunk == 2
DiskCap == 4
MaxHdrLen == 6

\* ------------------------------------------------------ program constants
TRY_LIMIT == 20
MAX_RETRY_WAIT == 10
HTTP_RETRY == 3

Hosts == {"a", "b"}
NoHost == "none"
NoInt == 0 - 1
NoEnc == << >>
NoRange == << >>
BadRange == <<0>>

Entity == [i \in 1..EntityLen |-> i]

\* The Content-Encoding header values the server may send: absent, and two
\* spellings of the same coding list.
EncHeaders == {NoEnc, <<"gzip", "identity">>, <<"gzip", " identity">>}

\* str.strip() on the tokens that occur.
Strip(tok) == IF tok = " identity" THEN "identity" ELSE tok

norm_enc(enc) == [i \in 1..Len(enc) |-> Strip(enc[i])]

EncIsIdentity(enc) == enc = NoEnc \/ \A i \in 1..Len(enc) : Strip(enc[i]) = "identity"

Min(a, b) == IF a < b THEN a ELSE b

SubSeqFrom(s, n) == SubSeq(s, n + 1, Len(s))

VARIABLES
    unreachable_hosts,  \* the registry: set of condemned authorities
    pools,              \* poolman.pools: authorities that have a pool
    pc,                 \* position of the retrieval
    url,                \* _retrieve_loop's local url
    target,             \* authority the pool manager is about to contact
    hops,               \* redirects followed by the current poolman.request
    hstat,              \* the HttpStat
    count,              \* retry_counter.count
    slept,              \* seconds slept in time.sleep by this retrieval
    request_headers,    \* the Range offset sent by this attempt, or NoInt
    resp,               \* the live response
    fs,                 \* the destination directory: part file and final file
    adjust_basename,    \* whether the caller passed an adjust_basename hook
    err,                \* the exception in flight / the retrieval's outcome
    io_host,            \* authority the last step did network I/O to, or NoHost
    ev,                 \* what the last step met: the call, the server's
                        \* answer, the chunk, the error or the step's name
    cfh_url,            \* poolman.cfh_url
    threads,            \* the retrievals that run in threads of their own
    crange_hdr,         \* the text of a Content-Range header
    parsed              \* what parse_content_range returned for it

vars == <<unreachable_hosts, pools, pc, url, target, hops, hstat, count, slept,
          request_headers, resp, fs, adjust_basename, err, io_host, ev,
          cfh_url, threads, crange_hdr, parsed>>

NoResp == [status |-> 0]

\* An event, and the event of receiving response r.  dns tells whether DNS
\* was working when the event happened.
Ev(what) ==
    [what |-> what, dns |-> TRUE, status |-> 0, server |-> "", enc |-> NoEnc,
     crange |-> NoRange, clen |-> NoInt, multipart |-> FALSE]

\* A transport error, raised while DNS was or was not working.
EvError(what, dns) == [Ev(what) EXCEPT !.dns = dns]

EvResp(r) ==
    [what |-> "response", dns |-> TRUE, status |-> r.status, server |-> r.server,
     enc |-> r.content_encoding, crange |-> r.content_range,
     clen |-> r.content_length, multipart |-> r.multipart]

HttpStat ==
    [current_url |-> NoHost, bytes_read |-> 0, contlen |-> NoInt, restval |-> 0,
     statcode |-> 0, dest_dir |-> FALSE, part_file |-> FALSE,
     remote_encoding |-> NoEnc, enc_is_identity |-> TRUE, decoder |-> NoInt,
     make_part_file |-> FALSE]

\* The threads, and a thread that runs no retrieval.  exc is the exception in
\* flight or the outcome, exc_url the url attribute of the WGError raised.
Threads == {"t1", "t2"}

NoThread == [pc |-> "idle", url |-> NoHost, target |-> NoHost, depth |-> 0,
             exc |-> "none", exc_url |-> NoHost]

\* A header that is absent (None), and the state before the parser ran.
NoHeader == <<"None">>

NotParsed == [done |-> FALSE, value |-> NoRange]

NoFiles == [part_exists |-> FALSE, part |-> << >>, part_mode |-> 0,
            dest_exists |-> FALSE, dest |-> << >>, dest_name |-> "",
            log |-> << >>]

Init ==
    /\ unreachable_hosts = {}
    /\ pools = {}
    /\ pc = "idle"
    /\ url = NoHost
    /\ target = NoHost
    /\ hops = 0
    /\ hstat = HttpStat
    /\ count = 0
    /\ slept = 0
    /\ request_headers = NoInt
    /\ resp = NoResp
    /\ fs = NoFiles
    /\ adjust_basename = FALSE
    /\ err = "none"
    /\ io_host = NoHost
    /\ ev = Ev("none")
    /\ cfh_url = NoHost
    /\ threads = [t \in Threads |-> NoThread]
    /\ crange_hdr = NoHeader
    /\ parsed = NotParsed

\* ------------------------------------------------------------ the server
\* What the server answers to a GET whose Range header asks for offset rv
\* (NoInt: no Range header).  The entity never changes; the server may
\* honour the Range (206), ignore it (200), refuse it (416), send no
\* Content-Length, fail, or send an incoherent Content-Range.
Response(st, srv, mp, cl, cr, enc, start) ==
    [status |-> st, server |-> srv, multipart |-> mp, content_length |-> cl,
     content_range |-> cr, content_encoding |-> enc,
     body_start |-> start, body |-> SubSeqFrom(Entity, start),
     sent |-> 0, bytes_to_skip |-> 0, decoder |-> NoInt]

Ok200 ==
    {Response(200, "other", FALSE, cl, NoRange, enc, 0) :
        cl \in {NoInt, EntityLen}, enc \in EncHeaders}

Ok206(rv) ==
    IF rv # NoInt /\ rv < EntityLen
    THEN {Response(206, "other", FALSE, EntityLen - rv,
                   <<rv, EntityLen - 1, EntityLen>>, enc, rv) : enc \in EncHeaders}
    ELSE {}

\* 206 answers whose Content-Range is missing, unparseable, names another
\* first byte than the one asked for, or names fewer bytes than the
\* Content-Length and the body have.
Odd206(rv) ==
    {Response(206, "other", FALSE, EntityLen, cr, NoEnc, 0) :
        cr \in {NoRange, BadRange, <<0, EntityLen - 1, EntityLen>>,
                <<0, 0, EntityLen>>}}
    \cup {Response(206, "other", FALSE, 1,
                   <<EntityLen - 1, EntityLen - 1, EntityLen>>, NoEnc, EntityLen - 1)}

NoBody ==
    {Response(st, "other", FALSE, NoInt, NoRange, enc, EntityLen) :
        st \in {204, 416}, enc \in {NoEnc, <<"gzip", "identity">>}}
    \cup {Response(st, srv, FALSE, NoInt, NoRange, NoEnc, EntityLen) :
             st \in {207, 404, 521}, srv \in {"other", "cloudflare"}}

Multipart == {Response(206, "other", TRUE, NoInt, NoRange, NoEnc, EntityLen)}

Responses(rv) == Ok200 \cup Ok206(rv) \cup Odd206(rv) \cup NoBody \cup Multipart

\* ------------------------------------------------------------- helpers
\* parse_content_range on a header already split into its numbers:
\* NoRange (header absent) and BadRange (malformed) give None.
parse_content_range(hdr) ==
    IF hdr = NoRange \/ hdr = BadRange THEN NoRange
    ELSE IF hdr[2] < hdr[1] \/ (hdr[3] # NoInt /\ hdr[3] <= hdr[2]) THEN NoRange
    ELSE hdr

should_retry(c) == c < TRY_LIMIT

\* increment with a sleep that is not capped at MAX_RETRY_WAIT.
increment_uncapped(nargs, c) ==
    IF nargs # 3 THEN [count |-> c, raise |-> "TypeError", sleep |-> 0]
    ELSE IF ~should_retry(c + 1)
         THEN [count |-> c + 1, raise |-> "WGMaxRetryError", sleep |-> 0]
         ELSE [count |-> c + 1, raise |-> "", sleep |-> c + 1]

\* increment testing should_retry before it counts the slot.
increment_late(nargs, c) ==
    IF nargs # 3 THEN [count |-> c, raise |-> "TypeError", sleep |-> 0]
    ELSE IF ~should_retry(c)
         THEN [count |-> c + 1, raise |-> "WGMaxRetryError", sleep |-> 0]
         ELSE [count |-> c + 1, raise |-> "", sleep |-> Min(c + 1, MAX_RETRY_WAIT)]

\* RetryCounter.increment(url, hstat, cause) called with nargs positional
\* arguments: a call that does not bind all three raises TypeError before
\* the body runs.
increment(nargs, c) ==
    IF nargs # 3 THEN [count |-> c, raise |-> "TypeError", sleep |-> 0]
    ELSE IF ~should_retry(c + 1)
         THEN [count |-> c + 1, raise |-> "WGMaxRetryError", sleep |-> 0]
         ELSE [count |-> c + 1, raise |-> "", sleep |-> Min(c + 1, MAX_RETRY_WAIT)]

\* gethttp: the Range header, "if hstat.restval:".
RangeHeader(restval) == IF restval # 0 THEN restval ELSE NoInt

\* gethttp: the most recent location is cached.
RequestUrl(h, u) == IF h.current_url # NoHost THEN h.current_url ELSE u

\* Top of THE loop and gethttp up to the call of urlopen.
LoopTop(h) ==
    [h EXCEPT !.restval = h.bytes_read, !.bytes_read = 0, !.contlen = NoInt]

\* The ways a step ends.  Each sets pc, err, ev, the retry counter, the
\* HttpStat (h is the HttpStat the step's code leaves) and the request the
\* next attempt issues.

\* An exception leaves _retrieve_loop for the wrapper's finally.
Raise(x, e, h) ==
    /\ pc' = "cleanup"
    /\ err' = x
    /\ ev' = e
    /\ hstat' = h
    /\ target' = NoHost
    /\ hops' = 0
    /\ UNCHANGED <<count, slept, request_headers>>

\* The code goes on to its next blocking call, at p.
Goto(p, e, h) ==
    /\ pc' = p
    /\ ev' = e
    /\ hstat' = h
    /\ target' = NoHost
    /\ hops' = 0
    /\ UNCHANGED <<err, count, slept, request_headers>>

\* "continue": the next attempt, up to its call of urlopen.
Continue(e, h) ==
    /\ pc' = "urlopen"
    /\ ev' = e
    /\ hstat' = LoopTop(h)
    /\ request_headers' = RangeHeader(h.bytes_read)
    /\ target' = RequestUrl(h, url)
    /\ hops' = 0
    /\ err' = err

\* A call of retry_counter.increment with nargs arguments, then "continue".
Consume(nargs, e, h) ==
    LET r == increment(nargs, count) IN
    /\ count' = r.count
    /\ slept' = slept + r.sleep
    /\ IF r.raise # ""
       THEN /\ pc' = "cleanup"
            /\ err' = r.raise
            /\ ev' = e
            /\ hstat' = h
            /\ target' = NoHost
            /\ hops' = 0
            /\ UNCHANGED request_headers
       ELSE Continue(e, h)

\* Finished without the comparison of bytes_read with contlen.
Finished_unchecked(e, h) ==
    IF ~h.part_file
    THEN Raise("AssertionError", e, h)
    ELSE Goto("chmod", e, h)

\* _retrieve_loop after gethttp returned RETRFINISHED with HttpStat h.
Finished(e, h) ==
    IF h.contlen # NoInt /\ h.bytes_read < h.contlen
    THEN Consume(3, e, h)
    ELSE IF h.contlen \notin {NoInt, h.bytes_read} \/ ~h.part_file
         THEN Raise("AssertionError", e, h)
         ELSE Goto("chmod", e, h)

\* ------------------------------------------------------------- actions
\* WgetRetrieveWrapper.__call__ and _retrieve_loop up to the first call of
\* urlopen.  Every call names a destination path of its own.
Call(u, scheme, adj) ==
    /\ pc = "idle"
    /\ url' = u
    /\ adjust_basename' = adj
    /\ fs' = NoFiles
    /\ count' = 0
    /\ slept' = 0
    /\ resp' = NoResp
    /\ io_host' = NoHost
    /\ UNCHANGED <<cfh_url, threads, crange_hdr, parsed>>
    /\ hops' = 0
    /\ request_headers' = NoInt
    /\ UNCHANGED <<unreachable_hosts, pools>>
    /\ IF scheme \notin {"http", "https"}
       THEN /\ hstat' = HttpStat /\ target' = NoHost
            /\ pc' = "cleanup" /\ err' = "WGBadProtocolError" /\ ev' = Ev("call")
       ELSE IF u \in unreachable_hosts
       THEN /\ hstat' = HttpStat /\ target' = NoHost
            /\ pc' = "cleanup" /\ err' = "WGUnreachableHostError" /\ ev' = Ev("call")
       ELSE /\ hstat' = LoopTop([HttpStat EXCEPT !.dest_dir = TRUE,
                                                 !.make_part_file = TRUE])
            /\ target' = u
            /\ pc' = "urlopen" /\ err' = "none" /\ ev' = Ev("call")

\* The pool manager has a pool for h, or may create one.
PoolAvailable(h) == h \in pools \/ h \notin unreachable_hosts

\* WGHTTP(S)ConnectionPool.__init__ refuses a condemned authority.
PoolRefused ==
    /\ pc = "urlopen"
    /\ ~PoolAvailable(target)
    /\ io_host' = NoHost
    /\ UNCHANGED <<cfh_url, threads, crange_hdr, parsed>>
    /\ Raise("WGUnreachableHostError", Ev("pool_refused"), hstat)
    /\ UNCHANGED <<unreachable_hosts, pools, url, resp, fs, adjust_basename>>

\* The pool manager keeps its num_pools most recently used pools: requests
\* to other authorities push the pool of h out of the cache.
PoolEvicted(h) ==
    /\ h \in pools
    /\ pools' = pools \ {h}
    /\ io_host' = NoHost
    /\ UNCHANGED <<cfh_url, threads, crange_hdr, parsed>>
    /\ UNCHANGED <<unreachable_hosts, pc, url, target, hops, hstat, count, slept,
                   request_headers, resp, fs, adjust_basename, err, ev>>

\* The server redirects to authority h; the pool manager follows.
Redirect(h) ==
    /\ pc = "urlopen"
    /\ PoolAvailable(target)
    /\ hops < HTTP_RETRY
    /\ pools' = pools \cup {target}
    /\ io_host' = target
    /\ UNCHANGED <<cfh_url, threads, crange_hdr, parsed>>
    /\ target' = h
    /\ hops' = hops + 1
    /\ ev' = Ev("redirect")
    /\ UNCHANGED <<unreachable_hosts, pc, url, hstat, count, slept, request_headers,
                   resp, fs, adjust_basename, err>>

\* poolman.request raises while DNS works: urlopen re-raises, and the loop
\* translates the exception.
UrlopenError(kind) ==
    /\ pc = "urlopen"
    /\ PoolAvailable(target)
    /\ pools' = pools \cup {target}
    /\ io_host' = target
    /\ UNCHANGED <<cfh_url, threads, crange_hdr, parsed>>
    /\ unreachable_hosts' = IF kind = "ConnectTimeoutError"
                            THEN unreachable_hosts \cup {target}
                            ELSE unreachable_hosts
    /\ IF kind = "MaxRetryError" THEN Raise("WGMaxRetryError", Ev(kind), hstat)
       ELSE IF kind = "ConnectTimeoutError"
       THEN Raise("WGUnreachableHostError", Ev(kind), hstat)
       ELSE Consume(3, Ev(kind), hstat)
    /\ UNCHANGED <<url, resp, fs, adjust_basename>>

\* poolman.request raises while DNS does not work: urlopen waits on the
\* no-internet signal and issues the request again.
NoInternet ==
    /\ pc = "urlopen"
    /\ PoolAvailable(target)
    /\ pools' = pools \cup {target}
    /\ io_host' = target
    /\ UNCHANGED <<cfh_url, threads, crange_hdr, parsed>>
    /\ target' = RequestUrl(hstat, url)
    /\ hops' = 0
    /\ ev' = EvError("no_internet", FALSE)
    /\ UNCHANGED <<unreachable_hosts, pc, url, hstat, count, slept, request_headers,
                   resp, fs, adjust_basename, err>>

\* process_response, the header checks.
contrange(r) ==
    LET crange_parsed == parse_content_range(r.content_range) IN
    IF crange_parsed # NoRange THEN crange_parsed[1] ELSE 0

contlen(r) ==
    LET crange_parsed == parse_content_range(r.content_range) IN
    IF crange_parsed # NoRange THEN crange_parsed[2] - crange_parsed[1] + 1
    ELSE r.content_length

\* RETROKF: "HTTP 20X" other than 207.
RetrOk(statcode) == 200 <= statcode /\ statcode < 300 /\ statcode # 207

EncodingChanged(h, r) ==
    h.restval > 0 /\ norm_enc(h.remote_encoding) # norm_enc(r.content_encoding)

\* CloudflareDown taking the status alone for the sign of Cloudflare.
CloudflareDown_any_server(r) ==
    r.status \in {521, 522, 523, 525, 526}

\* Cloudflare reports that it cannot reach the origin.
CloudflareDown(r) ==
    r.server = "cloudflare" /\ r.status \in {521, 522, 523, 525, 526}

shrunk(h, r) ==
    IF r.status = 416 THEN TRUE
    ELSE IF r.status # 200 \/ contlen(r) = 0 THEN FALSE
    ELSE contlen(r) # NoInt /\ contrange(r) = 0 /\ h.restval >= contlen(r)

\* RangeMisunderstood without the test of a 206 answering a resume attempt.
RangeMisunderstood_first(h, r) ==
    contrange(r) \notin {0, h.restval}

RangeMisunderstood(h, r) ==
    \/ contrange(r) \notin {0, h.restval}
    \/ r.status = 206 /\ h.restval > 0 /\ contrange(r) = 0

BytesToSkip(h, r) == IF h.restval > 0 /\ contrange(r) = 0 THEN h.restval ELSE 0

\* init_part_file leaving the factory in place.
init_part_file_kept(h) ==
    IF h.make_part_file THEN [h EXCEPT !.part_file = TRUE] ELSE h

\* HttpStat.init_part_file: the one-shot factory.
init_part_file(h) ==
    IF h.make_part_file
    THEN [h EXCEPT !.part_file = TRUE, !.make_part_file = FALSE]
    ELSE h

\* The HttpStat once a response passed every header check, about to stream.
Accepted(h, r) ==
    init_part_file(
        [h EXCEPT !.contlen = IF contlen(r) # NoInt THEN contlen(r) + contrange(r)
                              ELSE NoInt,
                  !.bytes_read = h.restval])

\* The response as the stream loop starts on it: bytes to skip, and the
\* saved decoder when this attempt resumes.
Prepared(h, r) ==
    [r EXCEPT !.bytes_to_skip = BytesToSkip(h, r),
              !.decoder = IF h.restval > 0 THEN h.decoder ELSE NoInt]

\* The HttpStat with this response's encoding and status recorded.
Recorded(h, r) ==
    [h EXCEPT !.remote_encoding = r.content_encoding,
              !.enc_is_identity = EncIsIdentity(r.content_encoding),
              !.statcode = r.status]

\* urlopen returns the response r, and process_response runs on it up to
\* its first read of the body.  gethttp caches urljoin(url,
\* resp.current_url), whose authority is that of the URL gethttp asked for.
ProcessResponse(h0, r) ==
    LET h1 == Recorded(h0, r) IN
       IF r.multipart
       THEN /\ Raise("WGBadResponseError", EvResp(r), h0)
            /\ resp' = NoResp
            /\ UNCHANGED <<unreachable_hosts, fs>>
       ELSE IF EncodingChanged(h0, r)
       THEN /\ Consume(2, EvResp(r), [h0 EXCEPT !.restval = 0])
            /\ resp' = NoResp
            /\ UNCHANGED <<unreachable_hosts, fs>>
       ELSE IF r.status = 204
       THEN /\ Finished(EvResp(r), [h1 EXCEPT !.bytes_read = 0, !.restval = 0])
            /\ resp' = NoResp
            /\ UNCHANGED <<unreachable_hosts, fs>>
       ELSE IF ~RetrOk(r.status)
       THEN /\ resp' = NoResp
            /\ UNCHANGED fs
            /\ IF CloudflareDown(r)
               THEN /\ unreachable_hosts' = unreachable_hosts \cup {h0.current_url}
                    /\ Raise("WGUnreachableHostError", EvResp(r), h1)
               ELSE /\ UNCHANGED unreachable_hosts
                    /\ Raise("WGWrongCodeError", EvResp(r), h1)
       ELSE IF shrunk(h1, r)
       THEN /\ Consume(2, EvResp(r), [h1 EXCEPT !.restval = 0])
            /\ resp' = NoResp
            /\ UNCHANGED <<unreachable_hosts, fs>>
       ELSE IF RangeMisunderstood(h1, r)
       THEN /\ Raise("WGRangeError", EvResp(r), h1)
            /\ resp' = NoResp
            /\ UNCHANGED <<unreachable_hosts, fs>>
       ELSE /\ Goto("stream", EvResp(r), Accepted(h1, r))
            /\ resp' = Prepared(h1, r)
            /\ fs' = IF h0.make_part_file
                     THEN [fs EXCEPT !.part_exists = TRUE, !.part_mode = 600]
                     ELSE fs
            /\ UNCHANGED unreachable_hosts

Respond(r) ==
    /\ pc = "urlopen"
    /\ PoolAvailable(target)
    /\ pools' = pools \cup {target}
    /\ io_host' = target
    /\ UNCHANGED <<cfh_url, threads, crange_hdr, parsed>>
    /\ ProcessResponse([hstat EXCEPT !.current_url = RequestUrl(hstat, url)], r)
    /\ UNCHANGED <<url, adjust_basename>>

\* ------------------------------------------------------ the stream loop
\* WGHTTPResponse._decode: the data left of a raw chunk after skipping, and
\* the bytes still to skip after it.
SkipData(data, bytes_to_skip) ==
    IF bytes_to_skip >= Len(data) THEN << >>
    ELSE IF bytes_to_skip > 0 THEN SubSeqFrom(data, bytes_to_skip)
    ELSE data

SkipLeft(data, bytes_to_skip) ==
    IF bytes_to_skip >= Len(data) THEN bytes_to_skip - Len(data) ELSE 0

\* The client library decodes a body whose Content-Encoding names gzip.
HasDecoder(enc) == \E i \in 1..Len(enc) : Strip(enc[i]) = "gzip"

\* A decoder's state is the offset in the encoded entity it has consumed up
\* to; a fresh decoder is at offset 0.
DecoderPos(r) == IF r.decoder = NoInt THEN 0 ELSE r.decoder

\* process_response's except clause: the decoder is saved when the attempt
\* made progress and the error will be retried.
SaveDecoder(h, r, c) ==
    IF h.bytes_read # h.restval /\ should_retry(c) /\ r.decoder # NoInt
    THEN [h EXCEPT !.decoder = r.decoder]
    ELSE h

\* One pass of "for chunk in resp.stream(...)": the server delivers k raw
\* bytes; wok says whether part_file.write succeeds when the disk has room.
StreamChunk(k, wok) ==
    /\ pc = "stream"
    /\ resp.sent + k <= Len(resp.body)
    /\ io_host' = NoHost
    /\ UNCHANGED <<cfh_url, threads, crange_hdr, parsed>>
    /\ UNCHANGED <<unreachable_hosts, pools, url, adjust_basename>>
    /\ LET raw == SubSeq(resp.body, resp.sent + 1, resp.sent + k)
           data == SkipData(raw, resp.bytes_to_skip)
           last_read_length == Len(data)
           offset == resp.body_start + resp.sent + (k - Len(data))
           r1 == [resp EXCEPT !.sent = resp.sent + k,
                              !.bytes_to_skip = SkipLeft(raw, resp.bytes_to_skip)]
           r2 == IF HasDecoder(resp.content_encoding)
                 THEN [r1 EXCEPT !.decoder = offset + Len(data)]
                 ELSE r1
           h1 == [hstat EXCEPT !.bytes_read = hstat.bytes_read + last_read_length]
       IN
       IF data = << >>
       THEN /\ resp' = r1
            /\ Goto("stream", Ev("chunk"), hstat)
            /\ UNCHANGED fs
       ELSE IF HasDecoder(resp.content_encoding) /\ DecoderPos(resp) # offset
       THEN \* DecodeError, an HTTPError
            /\ resp' = NoResp
            /\ Consume(3, Ev("decode_error"),
                       SaveDecoder(hstat, [r1 EXCEPT !.decoder = DecoderPos(resp)], count))
            /\ UNCHANGED fs
       ELSE IF wok /\ Len(fs.part) + Len(data) <= DiskCap
       THEN /\ resp' = r2
            /\ fs' = [fs EXCEPT !.part = fs.part \o data]
            /\ Goto("stream", Ev("chunk"), h1)
       ELSE /\ resp' = NoResp
            /\ Raise("OSError", Ev("write_error"), SaveDecoder(h1, r2, count))
            /\ UNCHANGED fs

\* resp.stream raises an HTTPError: the connection dropped, with DNS working
\* or not; no code on this path asks is_dns_working.
StreamReadError(dns) ==
    /\ pc = "stream"
    /\ io_host' = NoHost
    /\ UNCHANGED <<cfh_url, threads, crange_hdr, parsed>>
    /\ resp' = NoResp
    /\ Consume(3, EvError("read_error", dns), SaveDecoder(hstat, resp, count))
    /\ UNCHANGED <<unreachable_hosts, pools, url, fs, adjust_basename>>

\* The stream ends: at the end of the body, or earlier when the server
\* closes a body whose length it advertised.
StreamEnd ==
    /\ pc = "stream"
    /\ resp.sent = Len(resp.body) \/ resp.content_length # NoInt
    /\ io_host' = NoHost
    /\ UNCHANGED <<cfh_url, threads, crange_hdr, parsed>>
    /\ resp' = NoResp
    /\ Finished(Ev("eof"), [hstat EXCEPT !.decoder = NoInt])
    /\ UNCHANGED <<unreachable_hosts, pools, url, fs, adjust_basename>>

\* ------------------------------------------------------- finalization
Logged(step) == [fs EXCEPT !.log = Append(fs.log, step)]

\* A step of the normal return path at pc = at: it succeeds, leaving the
\* directory as f and the HttpStat as h, or raises e.
FinalStep(at, next, ok, f, h, e) ==
    /\ pc = at
    /\ io_host' = NoHost
    /\ UNCHANGED <<cfh_url, threads, crange_hdr, parsed>>
    /\ UNCHANGED <<unreachable_hosts, pools, url, resp, adjust_basename>>
    /\ IF ok
       THEN fs' = f /\ Goto(next, Ev(at), h)
       ELSE UNCHANGED fs /\ Raise(e, Ev(at), h)

Chmod(ok) ==
    FinalStep("chmod", "flush", ok, [Logged("chmod") EXCEPT !.part_mode = 644],
              hstat, "OSError")

Flush(ok) == FinalStep("flush", "touch", ok, Logged("flush"), hstat, "OSError")

\* touch() runs when server timestamps are requested and a time is known.
Touch(wanted, ok) ==
    FinalStep("touch", "adjust", ~wanted \/ ok,
              IF wanted THEN Logged("touch") ELSE fs, hstat, "OSError")

\* Adjust taking the original basename without calling the hook.
Adjust_uncalled(ok) ==
    FinalStep("adjust", "fsync", TRUE, [fs EXCEPT !.dest_name = "dest_basename"],
              hstat, "Exception")

\* The adjust_basename hook, when the caller gave one: the call is logged
\* whether the hook returns a name or raises.
Adjust(ok) ==
    IF adjust_basename /\ ~ok
    THEN /\ pc = "adjust"
         /\ io_host' = NoHost
         /\ UNCHANGED <<cfh_url, threads, crange_hdr, parsed>>
         /\ fs' = Logged("adjust")
         /\ Raise("Exception", Ev("adjust"), hstat)
         /\ UNCHANGED <<unreachable_hosts, pools, url, resp, adjust_basename>>
    ELSE FinalStep("adjust", "fsync", TRUE,
                   IF adjust_basename
                   THEN [Logged("adjust") EXCEPT !.dest_name = "adjusted"]
                   ELSE [fs EXCEPT !.dest_name = "dest_basename"],
                   hstat, "Exception")

\* Finalization going on to the close without the fsync of the part file.
Fsync_skipped(ok) == FinalStep("fsync", "close", TRUE, fs, hstat, "OSError")

\* fsync(hstat.part_file).
Fsync(ok) == FinalStep("fsync", "close", ok, Logged("fsync"), hstat, "OSError")

\* Close leaving hstat.part_file as it is.
Close_kept(ok) ==
    FinalStep("close", "rename", ok, Logged("close"), hstat, "OSError")

\* hstat.part_file.close() with "finally: hstat.part_file = None".
Close(ok) ==
    FinalStep("close", "rename", ok, Logged("close"),
              [hstat EXCEPT !.part_file = FALSE], "OSError")

\* os.replace of the part file onto the final name.
Rename(ok) ==
    FinalStep("rename", "dirsync", ok,
              [Logged("rename") EXCEPT !.part_exists = FALSE, !.dest_exists = TRUE,
                                       !.dest = fs.part],
              hstat, "OSError")

\* fdatasync(hstat.dest_dir), then return.
DirSync(ok) ==
    FinalStep("dirsync", "cleanup", ok, Logged("dirsync"), hstat, "OSError")

\* WgetRetrieveWrapper.__call__'s finally, with _close_part: the part file
\* is unlinked only when closing it succeeded.  The locals of _retrieve_loop
\* (the retry counter among them) are gone.
Cleanup(ok) ==
    /\ pc = "cleanup"
    /\ io_host' = NoHost
    /\ UNCHANGED <<cfh_url, threads, crange_hdr, parsed>>
    /\ pc' = "idle"
    /\ ev' = Ev("return")
    /\ hstat' = [hstat EXCEPT !.dest_dir = FALSE, !.part_file = FALSE]
    /\ fs' = IF hstat.part_file /\ ok THEN [fs EXCEPT !.part_exists = FALSE] ELSE fs
    /\ err' = IF hstat.part_file /\ ~ok THEN "OSError"
              ELSE IF err = "none" THEN "ok" ELSE err
    /\ resp' = NoResp
    /\ target' = NoHost
    /\ hops' = 0
    /\ request_headers' = NoInt
    /\ count' = 0
    /\ slept' = 0
    /\ UNCHANGED <<unreachable_hosts, pools, url, adjust_basename>>

\* ------------------------------------------- retrievals in threads
\* Retrievals that run concurrently, each in a thread of its own, followed
\* through the pool manager: they share poolman (its pools and its cfh_url)
\* and the registry.  A step runs one thread from one access of the shared
\* state to the next.
parsevars == <<crange_hdr, parsed>>

loopvars == <<pc, url, target, hops, hstat, count, slept, request_headers, resp,
              fs, adjust_basename, err, io_host, ev>>

\* _retrieve_loop up to poolman.request: the registry check of the initial
\* URL.
ThreadCall(t, u) ==
    /\ threads[t].pc = "idle"
    /\ threads' = [threads EXCEPT ![t] =
           IF u \in unreachable_hosts
           THEN [NoThread EXCEPT !.pc = "returned", !.url = u,
                                 !.exc = "WGUnreachableHostError", !.exc_url = u]
           ELSE [NoThread EXCEPT !.pc = "urlopen", !.url = u, !.target = u]]
    /\ UNCHANGED <<unreachable_hosts, pools, cfh_url, loopvars, parsevars>>

\* WGPoolManager.urlopen: "self.cfh_url = url".
PoolmanUrlopen(t) ==
    /\ threads[t].pc = "urlopen"
    /\ cfh_url' = threads[t].target
    /\ threads' = [threads EXCEPT ![t].pc = "pool", ![t].depth = @ + 1]
    /\ UNCHANGED <<unreachable_hosts, pools, loopvars, parsevars>>

\* connection_from_host: the cached pool, or _new_pool, which hands
\* self.cfh_url to the pool's __init__; that refuses a condemned authority.
NewPool(t) ==
    /\ threads[t].pc = "pool"
    /\ IF threads[t].target \in pools
       THEN /\ threads' = [threads EXCEPT ![t].pc = "request"]
            /\ UNCHANGED pools
       ELSE IF threads[t].target \in unreachable_hosts
       THEN /\ threads' = [threads EXCEPT ![t].pc = "finally",
                                          ![t].exc = "WGUnreachableHostError",
                                          ![t].exc_url = cfh_url]
            /\ UNCHANGED pools
       ELSE /\ threads' = [threads EXCEPT ![t].pc = "request"]
            /\ pools' = pools \cup {threads[t].target}
    /\ UNCHANGED <<unreachable_hosts, cfh_url, loopvars, parsevars>>

\* The server answers with a final response.
ThreadResponse(t) ==
    /\ threads[t].pc = "request"
    /\ threads' = [threads EXCEPT ![t].pc = "finally"]
    /\ UNCHANGED <<unreachable_hosts, pools, cfh_url, loopvars, parsevars>>

\* The server redirects to authority h: PoolManager.urlopen calls
\* self.urlopen with the new location.
ThreadRedirect(t, h) ==
    /\ threads[t].pc = "request"
    /\ threads[t].depth <= HTTP_RETRY
    /\ threads' = [threads EXCEPT ![t].pc = "urlopen", ![t].target = h]
    /\ UNCHANGED <<unreachable_hosts, pools, cfh_url, loopvars, parsevars>>

\* The connection attempt times out while DNS works.
ThreadConnectTimeout(t) ==
    /\ threads[t].pc = "request"
    /\ threads' = [threads EXCEPT ![t].pc = "finally",
                                  ![t].exc = "ConnectTimeoutError"]
    /\ UNCHANGED <<unreachable_hosts, pools, cfh_url, loopvars, parsevars>>

\* WGPoolManager.urlopen: "finally: self.cfh_url = None", once for each
\* nested call.
PoolmanFinally(t) ==
    /\ threads[t].pc = "finally"
    /\ cfh_url' = NoHost
    /\ threads' = [threads EXCEPT ![t].depth = @ - 1,
                                  ![t].pc = IF threads[t].depth = 1 THEN "except"
                                            ELSE "finally"]
    /\ UNCHANGED <<unreachable_hosts, pools, loopvars, parsevars>>

\* _retrieve_loop's except clauses, and the return to the caller.
LoopExcept(t) ==
    /\ threads[t].pc = "except"
    /\ IF threads[t].exc = "ConnectTimeoutError"
       THEN /\ unreachable_hosts' = unreachable_hosts \cup {threads[t].target}
            /\ threads' = [threads EXCEPT ![t].pc = "returned",
                                          ![t].exc = "WGUnreachableHostError",
                                          ![t].exc_url = threads[t].url]
       ELSE /\ threads' = [threads EXCEPT ![t].pc = "returned",
                                          ![t].exc = IF @ = "none" THEN "ok" ELSE @]
            /\ UNCHANGED unreachable_hosts
    /\ UNCHANGED <<pools, cfh_url, loopvars, parsevars>>

\* The caller has the outcome; the thread is free for its next retrieval.
ThreadReturn(t) ==
    /\ threads[t].pc = "returned"
    /\ threads' = [threads EXCEPT ![t] = NoThread]
    /\ UNCHANGED <<unreachable_hosts, pools, cfh_url, loopvars, parsevars>>

\* ------------------------------------------ the Content-Range parser
\* parse_content_range on the text of the header, a sequence of characters.
Digits == <<"0", "1", "2", "3", "4", "5", "6", "7", "8", "9">>

IsDigit(c) == \E d \in DOMAIN Digits : Digits[d] = c

DigitVal(c) == (CHOOSE d \in DOMAIN Digits : Digits[d] = c) - 1

\* "while hdrc[ci].isdigit(): num = 10 * num + int(hdrc[ci]); ci += 1"
RECURSIVE ScanDigits(_, _, _)
ScanDigits(hdrc, ci, num) ==
    IF IsDigit(hdrc[ci])
    THEN ScanDigits(hdrc, ci + 1, 10 * num + DigitVal(hdrc[ci]))
    ELSE [ci |-> ci, num |-> num]

\* parse_crange_num: ok is FALSE where the code raises ValueError.
parse_crange_num(hdrc, ci, postchar) ==
    LET r == ScanDigits(hdrc, ci, 0) IN
    IF ~IsDigit(hdrc[ci]) \/ hdrc[r.ci] # postchar
    THEN [ok |-> FALSE, ci |-> ci, num |-> 0]
    ELSE [ok |-> TRUE, ci |-> r.ci + 1, num |-> r.num]

startswith(h, p) == Len(h) >= Len(p) /\ SubSeq(h, 1, Len(p)) = p

RECURSIVE lstrip(_)
lstrip(h) == IF h # << >> /\ Head(h) = " " THEN lstrip(Tail(h)) ELSE h

\* The header without its "bytes" specifier.
Unprefixed(h) ==
    LET h1 == SubSeqFrom(h, 5)
        h2 == IF startswith(h1, <<":">>) THEN Tail(h1) ELSE h1
    IN  lstrip(h2)

\* parse_content_range from "ci = 0" on: hdrc ends with the sentinel "".
ParseSpec(h) ==
    LET hdrc == Append(h, "")
        f == parse_crange_num(hdrc, 1, "-")
        l == parse_crange_num(hdrc, f.ci, "/")
        entity_length == IF hdrc[l.ci] = "*" THEN NoInt
                         ELSE ScanDigits(hdrc, l.ci, 0).num
    IN  IF ~f.ok THEN NoRange
        ELSE IF ~l.ok THEN NoRange
        ELSE IF l.num < f.num \/ (entity_length # NoInt /\ entity_length <= l.num)
        THEN NoRange
        ELSE <<f.num, l.num, entity_length>>

parse_content_range_text(h) ==
    IF h = NoHeader THEN NoRange
    ELSE IF startswith(h, <<"b", "y", "t", "e", "s">>)
    THEN IF Unprefixed(h) = << >> THEN NoRange ELSE ParseSpec(Unprefixed(h))
    ELSE ParseSpec(h)

\* The headers the parser is run on: absent, or an optional specifier
\* followed by any text of at most maxlen characters.
Specifiers ==
    {<< >>, <<" ">>, <<"b", "y", "t", "e", "s">>, <<"b", "y", "t", "e", "s", ":">>,
     <<"b", "y", "t", "e", "s", " ">>, <<"b", "y", "t", "e", "s", ":", " ">>}

HdrChars == {"0", "1", "-", "/", "*", "x"}

Headers(maxlen) ==
    {NoHeader} \cup
    {p \o b : p \in Specifiers,
              b \in UNION {[1..n -> HdrChars] : n \in 0..maxlen}}

InitParse ==
    /\ unreachable_hosts = {}
    /\ pools = {}
    /\ pc = "idle"
    /\ url = NoHost
    /\ target = NoHost
    /\ hops = 0
    /\ hstat = HttpStat
    /\ count = 0
    /\ slept = 0
    /\ request_headers = NoInt
    /\ resp = NoResp
    /\ fs = NoFiles
    /\ adjust_basename = FALSE
    /\ err = "none"
    /\ io_host = NoHost
    /\ ev = Ev("none")
    /\ cfh_url = NoHost
    /\ threads = [t \in Threads |-> NoThread]
    /\ crange_hdr \in Headers(MaxHdrLen)
    /\ parsed = NotParsed

\* process_response calls parse_content_range on the header.
Parse ==
    /\ ~parsed.done
    /\ parsed' = [done |-> TRUE, value |-> parse_content_range_text(crange_hdr)]
    /\ UNCHANGED <<unreachable_hosts, pools, cfh_url, threads, crange_hdr, loopvars>>

\* ------------------------------------------------------ specifications
\* Spec: retrievals from one authority, followed byte by byte.
MainHosts == {"a"}

Next ==
    \/ \E u \in MainHosts, scheme \in {"http", "ftp"}, adj \in BOOLEAN :
          Call(u, scheme, adj)
    \/ \E h \in MainHosts : Redirect(h)
    \/ \E kind \in {"MaxRetryError", "ConnectTimeoutError", "HTTPError"} :
          UrlopenError(kind)
    \/ NoInternet
    \/ \E r \in Responses(request_headers) : Respond(r)
    \/ \E k \in 1..MaxChunk, wok \in BOOLEAN : StreamChunk(k, wok)
    \/ \E dns \in BOOLEAN : StreamReadError(dns)
    \/ StreamEnd
    \/ \E ok \in BOOLEAN : Chmod(ok)
    \/ \E ok \in BOOLEAN : Flush(ok)
    \/ \E wanted \in BOOLEAN, ok \in BOOLEAN : Touch(wanted, ok)
    \/ \E ok \in BOOLEAN : Adjust(ok)
    \/ \E ok \in BOOLEAN : Fsync(ok)
    \/ \E ok \in BOOLEAN : Close(ok)
    \/ \E ok \in BOOLEAN : Rename(ok)
    \/ \E ok \in BOOLEAN : DirSync(ok)
    \/ \E ok \in BOOLEAN : Cleanup(ok)

Spec == Init /\ [][Next]_vars

\* SpecHosts: retrievals from every authority of Hosts, with redirects
\* between them, answered by responses that carry no body.
NextHosts ==
    \/ \E u \in Hosts, scheme \in {"http", "ftp"}, adj \in BOOLEAN :
          Call(u, scheme, adj)
    \/ PoolRefused
    \/ \E h \in Hosts : PoolEvicted(h)
    \/ \E h \in Hosts : Redirect(h)
    \/ \E kind \in {"MaxRetryError", "ConnectTimeoutError", "HTTPError"} :
          UrlopenError(kind)
    \/ NoInternet
    \/ \E r \in NoBody \cup Multipart : Respond(r)
    \/ \E ok \in BOOLEAN : Cleanup(ok)

SpecHosts == Init /\ [][NextHosts]_vars

\* SpecThreads: retrievals in two threads, interleaved at every access of
\* the state they share.
NextThreads ==
    \/ \E t \in Threads, u \in Hosts : ThreadCall(t, u)
    \/ \E t \in Threads : PoolmanUrlopen(t)
    \/ \E t \in Threads : NewPool(t)
    \/ \E t \in Threads : ThreadResponse(t)
    \/ \E t \in Threads, h \in Hosts : ThreadRedirect(t, h)
    \/ \E t \in Threads : ThreadConnectTimeout(t)
    \/ \E t \in Threads : PoolmanFinally(t)
    \/ \E t \in Threads : LoopExcept(t)
    \/ \E t \in Threads : ThreadReturn(t)
    \/ \E h \in Hosts : PoolEvicted(h)

SpecThreads == Init /\ [][NextThreads]_vars

\* SpecParse: the parser run once on each header of Headers.
NextParse == Parse

SpecParse == InitParse /\ [][NextParse]_vars

\* --------------------------------------------------------- properties
\* The retrieval has returned to its caller, with or without an exception.
Returned == pc = "idle" /\ err # "none"

Succeeded == pc = "idle" /\ err = "ok"

Failed == Returned /\ err # "ok"

\* C1: whenever a retrieval succeeds, the file published at the destination
\* holds exactly the entity's bytes, each once and in order, whatever
\* attempts came before (a 204 answer, which says the entity holds no bytes,
\* set aside).
C1_PublishedEqualsEntity ==
    (Succeeded /\ hstat.statcode # 204) => (fs.dest_exists /\ fs.dest = Entity)

\* C2: after a retrieval that ended by raising an error, no part file of it
\* remains in the destination directory and it has published no file.
C2_FailureLeavesNothing ==
    Failed => (~fs.part_exists /\ ~fs.dest_exists)

\* C3: a step never performs network I/O with an authority that was in the
\* unreachable-host registry before the step, whether the authority is that
\* of the initial URL, of a redirect target or of the cached current URL,
\* and whether or not a pool for it existed before it was condemned.
C3_NoIOToCondemned ==
    [][io_host' # NoHost => io_host' \notin unreachable_hosts]_vars

\* C4: while a retrieval runs, every step leaves the retry counter as it is
\* or adds exactly 1 to it (it never decreases and is never reset), the
\* counter never exceeds TRY_LIMIT, a step that sleeps is a step that
\* consumed a slot and sleeps min(count, MAX_RETRY_WAIT) seconds with count
\* the incremented counter, and the total time slept is at most
\* MAX_RETRY_WAIT times the number of slots consumed.
C4_RetryCounter ==
    [][pc' # "idle" =>
          /\ count' \in {count, count + 1}
          /\ count' <= TRY_LIMIT
          /\ slept' # slept =>
                 /\ count' = count + 1
                 /\ slept' - slept = Min(count', MAX_RETRY_WAIT)
          /\ slept' <= MAX_RETRY_WAIT * count']_vars

\* The last slot has been consumed after nineteen sleeps.
C4_Witness ==
    /\ pc = "cleanup"
    /\ err = "WGMaxRetryError"
    /\ count = TRY_LIMIT
    /\ slept > MAX_RETRY_WAIT * MAX_RETRY_WAIT

\* The body stream of a response that advertised a content length ends
\* cleanly in this step before that many bytes were read.
ShortEnd ==
    /\ pc = "stream"
    /\ ev'.what = "eof"
    /\ hstat.contlen # NoInt
    /\ hstat.bytes_read < hstat.contlen

\* C5: a clean end of the body before the advertised content length does
\* not finalize the retrieval: it consumes exactly one retry slot, and then
\* either another attempt is made or, the slot being the last one, the
\* retrieval ends with WGMaxRetryError; a retrieval ending with
\* WGMaxRetryError has published no file.
C5_ShortBodyRetries ==
    [][/\ ShortEnd =>
              /\ count' = count + 1
              /\ ~fs'.dest_exists
              /\ \/ pc' = "urlopen" /\ err' = "none"
                 \/ /\ pc' = "cleanup"
                    /\ err' = "WGMaxRetryError"
                    /\ count' = TRY_LIMIT
       /\ err' = "WGMaxRetryError" => ~fs'.dest_exists]_vars

\* The last slot was consumed by a body that ended short.
C5_Witness ==
    /\ pc = "cleanup"
    /\ err = "WGMaxRetryError"
    /\ ev.what = "eof"
    /\ hstat.contlen # NoInt
    /\ hstat.bytes_read < hstat.contlen
    /\ ~fs.dest_exists

\* The connection drops in this step with n = hstat.bytes_read > 0 bytes of
\* the entity received so far.
Dropped == pc = "stream" /\ ev'.what = "read_error" /\ hstat.bytes_read > 0

\* A resume attempt is answered in this step by a 206 that is accepted: its
\* Content-Range starts at restval.
Resumed206 ==
    pc = "urlopen" /\ pc' = "stream" /\ ev'.status = 206 /\ hstat'.restval > 0

\* C6: a drop after n > 0 bytes consumes exactly one slot and the next
\* attempt asks for Range: bytes=n-, an attempt with restval = 0 sends no
\* Range header; when a 206 starting at n answers, the part file holds the
\* first n bytes of the entity, the body is appended after them, and when
\* the body is complete bytes_read is the length of the entity.
C6_ResumeWithRange ==
    [][/\ Dropped =>
              /\ count' = count + 1
              /\ pc' = "urlopen" => request_headers' = hstat.bytes_read
       /\ (pc' = "urlopen" /\ hstat'.restval = 0) => request_headers' = NoInt
       /\ Resumed206 => fs.part = SubSeq(Entity, 1, hstat'.restval)
       /\ (pc = "stream" /\ hstat.statcode = 206 /\ ev'.what = "chunk") =>
              fs'.part = fs.part \o SubSeq(Entity, hstat.bytes_read + 1,
                                           hstat'.bytes_read)
       /\ (pc = "stream" /\ hstat.statcode = 206 /\ pc' = "chmod") =>
              hstat'.bytes_read = Len(Entity)]_vars

\* A resume attempt is answered in this step by a 200 that ignores the
\* Range header and is accepted.
Ignored200 ==
    pc = "urlopen" /\ pc' = "stream" /\ ev'.status = 200 /\ hstat'.restval > 0

\* C7: when a 200 ignores the Range of a resume attempt, exactly the first
\* restval bytes of its body are skipped, uncounted and unwritten; every
\* later byte is counted and appended; the part file, which held the first
\* restval bytes of the entity, continues from offset restval, and when the
\* body is complete bytes_read is the length of the entity.
C7_IgnoredRangeSkips ==
    [][/\ Ignored200 =>
              /\ resp'.bytes_to_skip = hstat'.restval
              /\ hstat'.bytes_read = hstat'.restval
              /\ fs.part = SubSeq(Entity, 1, hstat'.restval)
       /\ (pc = "stream" /\ hstat.statcode = 200 /\ hstat.restval > 0
              /\ ev'.what = "chunk") =>
              fs'.part = fs.part \o SubSeq(Entity, hstat.bytes_read + 1,
                                           hstat'.bytes_read)
       /\ (pc = "stream" /\ hstat.statcode = 200 /\ hstat.restval > 0
              /\ pc' = "chmod") =>
              hstat'.bytes_read = Len(Entity)]_vars

\* C8: a 416 answering a resume attempt does not end the retrieval: restval
\* is reset to 0, exactly one slot is consumed, and the next attempt asks
\* for the entity from offset 0 (no Range header).
C8_RangeNotSatisfiableRestarts ==
    [][(pc = "urlopen" /\ hstat.restval > 0 /\ ev'.status = 416
           /\ count + 1 < TRY_LIMIT) =>
          /\ pc' = "urlopen"
          /\ err' = "none"
          /\ count' = count + 1
          /\ hstat'.restval = 0
          /\ request_headers' = NoInt]_vars

\* C9: a 204 answer makes the retrieval succeed: the step raises nothing,
\* the part file exists, bytes_read is 0 and finalization starts; the file
\* published by a retrieval that ended on a 204 is empty.
C9_NoContentPublishesEmptyFile ==
    [][/\ (pc = "urlopen" /\ ev'.status = 204) =>
              /\ err' = "none"
              /\ pc' = "chmod"
              /\ fs'.part_exists
              /\ hstat'.bytes_read = 0
       /\ (pc = "cleanup" /\ pc' = "idle" /\ hstat.statcode = 204
              /\ err' = "ok") =>
              (fs'.dest_exists /\ fs'.dest = << >>)]_vars

\* C10: when a resume attempt receives a response, not a multipart one,
\* whose normalized Content-Encoding differs from the previous attempt's,
\* the retry counter grows by one, restval is reset to 0, the saved decoder
\* is cleared, and the loop makes another attempt from offset 0.
C10_EncodingChangeRestarts ==
    [][(pc = "urlopen" /\ hstat.restval > 0 /\ ev'.what = "response"
           /\ norm_enc(hstat.remote_encoding) # norm_enc(ev'.enc)
           /\ err' # "WGBadResponseError"
           /\ count + 1 < TRY_LIMIT) =>
          /\ pc' = "urlopen"
          /\ err' = "none"
          /\ count' = count + 1
          /\ hstat'.restval = 0
          /\ hstat'.decoder = NoInt
          /\ request_headers' = NoInt]_vars

\* The first byte position that the Content-Range header hdr names, 0 when
\* the header is missing or unparseable.
FirstBytePos(hdr) ==
    IF parse_content_range(hdr) = NoRange THEN 0 ELSE parse_content_range(hdr)[1]

\* This step receives a 2xx response other than 204, not multipart and in
\* the encoding of the attempt before, whose Content-Range starts neither
\* at 0 nor at restval, or a 206 to a resume attempt whose Content-Range is
\* missing, unparseable or starts at 0.
BadRangeAnswer ==
    /\ pc = "urlopen"
    /\ ev'.what = "response"
    /\ ~ev'.multipart
    /\ ~(hstat.restval > 0 /\ norm_enc(hstat.remote_encoding) # norm_enc(ev'.enc))
    /\ 200 <= ev'.status /\ ev'.status < 300 /\ ev'.status \notin {204, 207}
    /\ \/ FirstBytePos(ev'.crange) \notin {0, hstat.restval}
       \/ ev'.status = 206 /\ hstat.restval > 0 /\ FirstBytePos(ev'.crange) = 0

Steps(step) == {i \in DOMAIN fs.log : fs.log[i] = step}

\* C12: the adjust_basename hook is called at most once in a retrieval and
\* only when the caller supplied it; once it has been called the retrieval
\* writes no byte to the part file; a retrieval with a hook that succeeded called
\* it exactly once, before the rename, and the file was renamed to the
\* basename the hook returned.
C12_AdjustBasenameOnce ==
    [][/\ Cardinality(Steps("adjust"))' <= 1
       /\ (~adjust_basename)' => (Steps("adjust") = {})'
       /\ (Steps("adjust") # {} /\ pc # "idle") => fs'.part = fs.part
       /\ (Succeeded /\ adjust_basename)' =>
              /\ Cardinality(Steps("adjust"))' = 1
              /\ Cardinality(Steps("rename"))' = 1
              /\ (\A i \in Steps("adjust"), j \in Steps("rename") : i < j)'
              /\ fs'.dest_name = "adjusted"]_vars

\* A retrieval with a hook has succeeded after an attempt that dropped.
C12_Witness ==
    /\ Succeeded
    /\ adjust_basename
    /\ Steps("adjust") # {}
    /\ fs.dest_name = "adjusted"
    /\ fs.dest = Entity
    /\ hstat.restval > 0

\* The seconds slept by the first n backoff sleeps: 1 + 2 + ... up to
\* MAX_RETRY_WAIT, then MAX_RETRY_WAIT each.
RECURSIVE Backoff(_)
Backoff(n) == IF n = 0 THEN 0 ELSE Backoff(n - 1) + Min(n, MAX_RETRY_WAIT)

\* The retry counter has raised WGMaxRetryError (urllib3's own retry limit,
\* which the loop reports with the same exception, set aside).
Exhausted ==
    pc = "cleanup" /\ err = "WGMaxRetryError" /\ ev.what # "MaxRetryError"

\* C13 as stated: when the retry counter gives up, TRY_LIMIT retries have
\* been made and the backoff sleeps before it total
\* 1 + 2 + ... + 10 + 10 * 10 = Backoff(TRY_LIMIT) seconds.
C13_SleepsTwentyTimes ==
    Exhausted => (count = TRY_LIMIT /\ slept = Backoff(TRY_LIMIT))

\* C13, amended: the retry counter gives up at the TRY_LIMIT-th consumed
\* slot without sleeping for it, so TRY_LIMIT attempts and TRY_LIMIT - 1
\* sleeps were made, which total Backoff(TRY_LIMIT - 1) seconds.
C13_SleepsNineteenTimes ==
    Exhausted => (count = TRY_LIMIT /\ slept = Backoff(TRY_LIMIT - 1))

\* The counter gave up on an attempt that dropped after making progress.
C13_Witness ==
    /\ Exhausted
    /\ ev.what = "read_error"
    /\ hstat.bytes_read > hstat.restval
    /\ slept = Backoff(TRY_LIMIT - 1)
    /\ slept < Backoff(TRY_LIMIT)

\* This step passes the top of THE loop: it starts the first attempt of a
\* retrieval or, having consumed a slot, the next one.
AttemptBoundary ==
    pc' = "urlopen" /\ (pc # "urlopen" \/ count' # count)

\* C14: at every attempt boundary the restval taken from bytes_read is the
\* number of bytes appended to the part file so far in this retrieval (0
\* when there is no part file yet), and the offset asked for next is the end
\* of the stored data.
C14_RestvalIsStoredLength ==
    [][AttemptBoundary =>
          /\ hstat'.restval = Len(fs'.part)
          /\ request_headers' = RangeHeader(Len(fs'.part))]_vars

\* C15: bytes_read >= restval in every state of a retrieval, the states
\* between the start of an attempt and the validation of its response
\* included, and in every step that calls the retry counter's increment.
C15_BytesReadAtLeastRestval ==
    hstat.bytes_read >= hstat.restval

\* C16: an attempt whose restval is 0 starts with hstat.decoder null,
\* whatever the earlier attempts of the retrieval met.
C16_NoDecoderAtOffsetZero ==
    (pc = "urlopen" /\ hstat.restval = 0) => hstat.decoder = NoInt

\* C17: whenever hstat.contlen is non-null it is at least hstat.bytes_read,
\* whatever Content-Length and Content-Range the accepted responses
\* carried, so that an assertion that fails at finalization is never the
\* assertion contlen in {null, bytes_read}.
C17_ContlenBoundsBytesRead ==
    /\ hstat.contlen # NoInt => hstat.contlen >= hstat.bytes_read
    /\ (pc = "cleanup" /\ err = "AssertionError") =>
           hstat.contlen \in {NoInt, hstat.bytes_read}

\* The length of the body that the headers of the response received in this
\* step advertise: that of the Content-Range when it parses, else the
\* Content-Length.
AdvertisedLength ==
    IF parse_content_range(ev'.crange) = NoRange THEN ev'.clen
    ELSE parse_content_range(ev'.crange)[2] - parse_content_range(ev'.crange)[1] + 1

\* The response received in this step passes every header check: it is not
\* multipart, its encoding is the one of the attempt before, its status is
\* 2xx other than 204 and 207, the entity has not shrunk below restval and
\* the range is coherent.
Streamable ==
    /\ pc = "urlopen"
    /\ ev'.what = "response"
    /\ ~ev'.multipart
    /\ ~(hstat.restval > 0 /\ norm_enc(hstat.remote_encoding) # norm_enc(ev'.enc))
    /\ 200 <= ev'.status /\ ev'.status < 300 /\ ev'.status \notin {204, 207}
    /\ ~(ev'.status = 200 /\ AdvertisedLength \notin {NoInt, 0}
            /\ FirstBytePos(ev'.crange) = 0 /\ hstat.restval >= AdvertisedLength)
    /\ FirstBytePos(ev'.crange) \in {0, hstat.restval}
    /\ ~(ev'.status = 206 /\ hstat.restval > 0 /\ FirstBytePos(ev'.crange) = 0)

\* C18: the part file is created only in a step that receives a response
\* passing every header check and only by the one-shot factory, which is
\* then gone for the rest of the retrieval, so that it is created at most
\* once; as long as no response has passed the checks (the factory is still
\* there) the retrieval has no file in the directory, whether it goes on or
\* has failed.
C18_PartFileCreatedOnce ==
    [][/\ (~fs.part_exists /\ fs'.part_exists) =>
              (Streamable /\ hstat.make_part_file /\ ~hstat'.make_part_file)
       /\ (pc # "idle" /\ ~hstat.make_part_file) => ~hstat'.make_part_file
       /\ hstat'.make_part_file => (~fs'.part_exists /\ ~fs'.dest_exists)
       /\ (Streamable /\ hstat.make_part_file) => fs'.part_exists]_vars

\* A resume attempt streams into the part file that an earlier attempt of
\* the retrieval created.
C18_Witness ==
    /\ pc = "stream"
    /\ hstat.restval > 0
    /\ fs.part_exists
    /\ ~hstat.make_part_file
    /\ count > 0

\* The retrieval is at a blocking call of the loop or of finalization up to
\* the close of the part file.
BeforeClosed ==
    pc \in {"urlopen", "stream", "chmod", "flush", "touch", "adjust", "fsync",
            "close"}

\* The part file has been closed and finalization is not complete.
AfterClosed == pc \in {"rename", "dirsync"}

\* C19 as stated: in every state of a retrieval before finalization is
\* complete, exactly one of hstat.part_file and hstat._make_part_file is
\* non-null.
C19_ExactlyOneUntilFinalized ==
    (BeforeClosed \/ AfterClosed) => (hstat.part_file # hstat.make_part_file)

\* C19, amended: the two are never both non-null; exactly one of them is
\* non-null from the first attempt's request until finalization closes the
\* part file; from that close on, during the rename and the directory sync,
\* both are null.
C19_ExactlyOneUntilClosed ==
    /\ ~(hstat.part_file /\ hstat.make_part_file)
    /\ BeforeClosed => (hstat.part_file # hstat.make_part_file)
    /\ AfterClosed => (~hstat.part_file /\ ~hstat.make_part_file)

\* Finalization has closed the part file and is about to rename it.
C19_Witness ==
    /\ pc = "rename"
    /\ fs.part_exists
    /\ ~hstat.part_file
    /\ ~hstat.make_part_file

\* The orders in which a complete finalization takes its steps: the mtime
\* update and the adjust_basename hook are optional.
FinalOrders ==
    {<<"chmod", "flush">> \o t \o a \o <<"fsync", "close", "rename", "dirsync">> :
        t \in {<< >>, <<"touch">>}, a \in {<< >>, <<"adjust">>}}

IsPrefix(s, t) == Len(s) <= Len(t) /\ s = SubSeq(t, 1, Len(s))

ConnectFailed == pc = "urlopen" /\ ev'.what = "ConnectTimeoutError"

CloudflareAnswer ==
    /\ pc = "urlopen"
    /\ ev'.what = "response"
    /\ ev'.server = "cloudflare"
    /\ ev'.status \in {521, 522, 523, 525, 526}

\* C21: the registry only grows; a step adds an authority to it only when
\* a connection attempt failed with a connect timeout or a Cloudflare
\* origin-down response was received, and such a step adds one authority,
\* consumes no retry slot, does not sleep and leaves the loop with
\* WGUnreachableHostError; a connect timeout that the loop sees condemns the
\* authority contacted, and a Cloudflare origin-down response that reaches
\* the status check condemns the authority of the URL asked for.
C21_RegistryEntry ==
    [][/\ unreachable_hosts \subseteq unreachable_hosts'
       /\ unreachable_hosts' # unreachable_hosts =>
              /\ ConnectFailed \/ CloudflareAnswer
              /\ Cardinality(unreachable_hosts' \ unreachable_hosts) = 1
       /\ ConnectFailed => io_host' \in unreachable_hosts'
       /\ (CloudflareAnswer /\ ~ev'.multipart /\ hstat.restval = 0) =>
              hstat'.current_url \in unreachable_hosts'
       /\ (ConnectFailed \/ (CloudflareAnswer /\ ~ev'.multipart
                                 /\ hstat.restval = 0)) =>
              /\ pc' = "cleanup"
              /\ err' = "WGUnreachableHostError"
              /\ count' = count
              /\ slept' = slept]_vars

\* The last authority has been condemned by a connect timeout that came
\* after a retry slot was consumed.
C21_Witness ==
    /\ unreachable_hosts = Hosts
    /\ pc = "cleanup"
    /\ err = "WGUnreachableHostError"
    /\ ev.what = "ConnectTimeoutError"
    /\ count > 0

\* C22: when a retrieval running in a thread has returned with
\* WGUnreachableHostError, the URL that the error carries is a URL of that
\* retrieval: the URL it was called with or the URL it was requesting when
\* the pool was refused, whatever the other thread was doing.
C22_ErrorUrlIsOwn ==
    \A t \in Threads :
        (threads[t].pc = "returned" /\ threads[t].exc = "WGUnreachableHostError") =>
            threads[t].exc_url \in {threads[t].url, threads[t].target}

\* An error ends the stream loop in this step after the attempt made
\* progress, with more than one retry slot left: the read of the body
\* fails, or the write of a chunk to the part file does.
ReadErrorAfterProgress ==
    /\ pc = "stream"
    /\ ev'.what = "read_error"
    /\ hstat.bytes_read > hstat.restval
    /\ count + 1 < TRY_LIMIT

WriteErrorAfterProgress ==
    /\ pc = "stream"
    /\ ev'.what = "write_error"
    /\ hstat'.bytes_read > hstat'.restval
    /\ count + 1 < TRY_LIMIT

\* C23: an error in the stream loop after progress, with retry budget left,
\* consumes exactly one retry slot and is followed by another attempt,
\* whether it is a read error or an error writing the part file; the
\* retrieval does not end on it.
C23_StreamErrorRetries ==
    [][(ReadErrorAfterProgress \/ WriteErrorAfterProgress) =>
          /\ pc' = "urlopen"
          /\ err' = "none"
          /\ count' = count + 1]_vars

\* A transport error is raised in this step: by the request, or by the read
\* of the body.
TransportError ==
    \/ pc = "urlopen" /\ ev'.what \in {"no_internet", "MaxRetryError",
                                       "ConnectTimeoutError", "HTTPError"}
    \/ pc = "stream" /\ ev'.what = "read_error"

\* C24: a transport error raised while DNS is not working, by the request
\* or by the read of the body, does not fail the retrieval, consumes no
\* retry slot, condemns no host and is followed by the same request again;
\* an error reaches the retrieve loop (which counts it, or ends the
\* retrieval on it) only when DNS is working.
C24_NoInternetIsNotAnError ==
    [][/\ (TransportError /\ ~ev'.dns) =>
              /\ pc' = "urlopen"
              /\ err' = "none"
              /\ count' = count
              /\ slept' = slept
              /\ unreachable_hosts' = unreachable_hosts
              /\ request_headers' = request_headers
       /\ (TransportError /\ (count' # count \/ pc' = "cleanup")) => ev'.dns]_vars

\* The reference grammar: [bytes[:][whitespace]]FIRST-LAST/(LEN|*).
IsNumber(t) == t # << >> /\ \A i \in DOMAIN t : IsDigit(t[i])

RECURSIVE Decimal(_)
Decimal(t) ==
    IF t = << >> THEN 0
    ELSE 10 * Decimal(SubSeq(t, 1, Len(t) - 1)) + DigitVal(t[Len(t)])

\* The triples that the text b, a header without specifier, spells.
Spelled(b) ==
    {<<Decimal(SubSeq(b, 1, i - 1)), Decimal(SubSeq(b, i + 1, j - 1)),
       IF SubSeqFrom(b, j) = <<"*">> THEN NoInt ELSE Decimal(SubSeqFrom(b, j))>> :
        <<i, j>> \in {ij \in (DOMAIN b) \X (DOMAIN b) :
                        /\ ij[1] < ij[2]
                        /\ b[ij[1]] = "-"
                        /\ b[ij[2]] = "/"
                        /\ IsNumber(SubSeq(b, 1, ij[1] - 1))
                        /\ IsNumber(SubSeq(b, ij[1] + 1, ij[2] - 1))
                        /\ \/ SubSeqFrom(b, ij[2]) = <<"*">>
                           \/ IsNumber(SubSeqFrom(b, ij[2]))}}

ValidTriple(t) == t[1] <= t[2] /\ (t[3] = NoInt \/ t[3] > t[2])

\* What the grammar gives for header h: the valid triple it spells, or null.
Reference(h) ==
    LET b == IF h = NoHeader THEN << >>
             ELSE IF startswith(h, <<"b", "y", "t", "e", "s">>) THEN Unprefixed(h)
             ELSE h
        ts == {t \in Spelled(b) : ValidTriple(t)}
    IN  IF ts = {} THEN NoRange ELSE CHOOSE t \in ts : TRUE

\* The serialization "bytes F-L/N" of a triple of one-digit numbers.
Serialized(t) ==
    <<"b", "y", "t", "e", "s", " ", Digits[t[1] + 1], "-", Digits[t[2] + 1], "/">>
    \o (IF t[3] = NoInt THEN <<"*">> ELSE <<Digits[t[3] + 1]>>)

\* C25: parse_content_range returns for every header what the reference
\* grammar gives: the triple for a header of the form
\* [bytes[:][whitespace]]FIRST-LAST/(LEN|*) with FIRST <= LAST < LEN, null
\* for every other header; and the serialization of a valid triple parses
\* to that triple.
C25_ParserAgreesWithGrammar ==
    parsed.done =>
        /\ parsed.value = Reference(crange_hdr)
        /\ \A t \in (0..1) \X (0..1) \X {NoInt, 0, 1} :
               (ValidTriple(t) /\ crange_hdr = Serialized(t)) => parsed.value = t

====
